---- MODULE Spec2Model ----
(***************************************************************************)
(* Model of the VSCode marketplace crawler (marketplace_crawler.py) and of *)
(* the data processor (data_processor.py).                                 *)
(*                                                                         *)
(* JSON / Python values are tagged records:                                *)
(*   None            [t |-> "null"]                                        *)
(*   Num(n)          [t |-> "num",  n |-> n]                               *)
(*   Str(s)          [t |-> "str",  s |-> s]   s: sequence of pieces; a    *)
(*                   delimiter character ("_", "T") is a piece of its own  *)
(*   List(l)         [t |-> "list", items |-> l]                           *)
(*   Dict(m)         [t |-> "dict", m |-> m]   m: function from keys       *)
(* The outcome of evaluating a Python expression is Ok(v) or Raise(exc).   *)
(***************************************************************************)
EXTENDS Integers, Sequences, FiniteSets, TLC

VARIABLES
    \* ---- marketplace_crawler.py ----
    cpc,               \* position of crawl(): idle, request, save, returned, raised
    max_pages,         \* argument of crawl()
    page,              \* loop variable of crawl()
    total_extensions,  \* running total of crawl()
    extensions,        \* list returned by the last _make_request
    files,             \* extensions/<page>.json, by page number
    requests,          \* page numbers posted to the marketplace, in order
    results,           \* outcome of each _make_request, in order
    save_errors,       \* pages whose save met an IOError
    returned,          \* value returned by crawl()
    \* ---- data_processor.py: flattening of one record ----
    fpc,               \* position: ready, processed, nested, stat
    extension,         \* record under flattening
    row,               \* outcome of _process_extension
    nested,            \* outcome of the last _extract_nested_value
    nested_path,       \* its path argument
    stat,              \* outcome of the last _extract_statistic_value
    stat_name,         \* its stat_name argument
    \* ---- data_processor.py: export run ----
    epc,               \* position of main(): start, csv_done, done, raised
    snapshots,         \* the *.json files of extensions_dir
    csv,               \* vscode_extensions.csv
    table,             \* table vscode_extensions of vscode_extensions.db
    failed_in,         \* stage whose exception main() re-raised
    sqlite_runs        \* number of export_to_sqlite calls so far

crawlVars == <<cpc, max_pages, page, total_extensions, extensions, files,
               requests, results, save_errors, returned>>
flatVars == <<fpc, extension, row, nested, nested_path, stat, stat_name>>
exportVars == <<epc, snapshots, csv, table, failed_in, sqlite_runs>>
vars == <<crawlVars, flatVars, exportVars>>

---------------------------------------------------------------------------
\* Bounds of the model.
MaxPage == 3     \* largest max_pages passed to crawl()
MaxRecs == 2     \* largest number of records on one fetched page
MaxStats == 2    \* longest statistics list of a record
MaxFiles == 2    \* most snapshot files in the directory the export reads
MaxFileRecs == 3 \* most records in one snapshot file
MaxExports == 2  \* most calls of export_to_sqlite

---------------------------------------------------------------------------
\* Python / JSON values.
None == [t |-> "null"]
Num(n) == [t |-> "num", n |-> n]
Str(s) == [t |-> "str", s |-> s]
List(l) == [t |-> "list", items |-> l]
Dict(m) == [t |-> "dict", m |-> m]
EmptyMap == [k \in {} |-> None]

Ok(v) == [ok |-> TRUE, v |-> v]
Raise(e) == [ok |-> FALSE, exc |-> e]

\* v.get(key, default): only a dict has .get
Get(v, key, default) ==
    IF v.t # "dict" THEN Raise("AttributeError")
    ELSE IF key \in DOMAIN v.m THEN Ok(v.m[key]) ELSE Ok(default)

\* v[0]: a JSON object has string keys only, so indexing it by 0 is a KeyError
Index0(v) ==
    CASE v.t = "list" -> IF Len(v.items) > 0 THEN Ok(v.items[1]) ELSE Raise("IndexError")
      [] v.t = "str" -> IF Len(v.s) > 0 THEN Ok(Str(<<v.s[1]>>)) ELSE Raise("IndexError")
      [] v.t = "dict" -> Raise("KeyError")
      [] OTHER -> Raise("TypeError")

\* bool(v)
Truthy(v) ==
    CASE v.t = "null" -> FALSE
      [] v.t = "num" -> v.n # 0
      [] v.t = "str" -> Len(v.s) > 0
      [] v.t = "list" -> Len(v.items) > 0
      [] v.t = "dict" -> DOMAIN v.m # {}

\* len(v) taken as 1 per page: the pages are counted, not their records
PyLenPages(v) ==
    IF v.t \in {"list", "str", "dict"} THEN Ok(1) ELSE Raise("TypeError")

\* len(v)
PyLen(v) ==
    CASE v.t = "list" -> Ok(Len(v.items))
      [] v.t = "str" -> Ok(Len(v.s))
      [] v.t = "dict" -> Ok(Cardinality(DOMAIN v.m))
      [] OTHER -> Raise("TypeError")

\* d.pop(key, None) on a dict d: d without key
Pop(d, key) == Dict([k \in (DOMAIN d.m) \ {key} |-> d.m[k]])

---------------------------------------------------------------------------
\* Responses of the marketplace to one POST.
Ext(i) == Dict([extensionId |-> Num(i)])
ExtV(i) == Dict([extensionId |-> Num(i), versions |-> List(<<>>)])
\* a page of n records, the first of them carrying a versions list
PageList(n) == List([i \in 1..n |-> IF i = 1 THEN ExtV(i) ELSE Ext(i)])
PageLists == {PageList(n) : n \in 1..MaxRecs}

ExtensionsValues ==
    PageLists \cup
    {None, List(<<>>), Num(0), Num(5), Dict(EmptyMap), Dict([a |-> None]),
     List(<<Num(1)>>)}

Bodies ==
    {None, List(<<>>), Dict(EmptyMap),
     Dict([results |-> None]), Dict([results |-> List(<<>>)]),
     Dict([results |-> Dict(EmptyMap)]), Dict([results |-> List(<<None>>)]),
     Dict([results |-> List(<<Dict(EmptyMap)>>)])}
    \cup {Dict([results |-> List(<<Dict([extensions |-> e])>>)]) : e \in ExtensionsValues}

Responses ==
    {[kind |-> "transport"], [kind |-> "status"]}
    \cup {[kind |-> "ok", body |-> b] : b \in Bodies}

\* MarketplaceCrawler._make_request, given the response to the POST
MakeRequest(resp) ==
    IF resp.kind # "ok" THEN Ok(None)
    ELSE LET r1 == Get(resp.body, "results", List(<<Dict(EmptyMap)>>))
             r2 == IF r1.ok THEN Index0(r1.v) ELSE r1
             r3 == IF r2.ok THEN Get(r2.v, "extensions", List(<<>>)) ELSE r2
         IN  IF r3.ok THEN r3
             ELSE IF r3.exc \in {"KeyError", "IndexError"} THEN Ok(None)
             ELSE r3

---------------------------------------------------------------------------
\* Files of the snapshot directory.
NoFile == [st |-> "absent"]
Truncated == [st |-> "truncated"]
JsonFile(data) == [st |-> "json", data |-> data]
StaleFile == JsonFile(List(<<Ext(0)>>))

\* The loop of _save_extensions removing 'versions' from every element.
StripVersions(exts) ==
    IF exts.t = "list"
    THEN IF \A i \in 1..Len(exts.items) : exts.items[i].t = "dict"
         THEN Ok(List([i \in 1..Len(exts.items) |-> Pop(exts.items[i], "versions")]))
         ELSE IF \E i \in 1..Len(exts.items) : exts.items[i].t = "list"
                     /\ \A j \in 1..(i-1) : exts.items[j].t = "dict"
              THEN Raise("TypeError")
              ELSE Raise("AttributeError")
    ELSE IF exts.t \in {"dict", "str"} THEN Raise("AttributeError")
    ELSE Raise("TypeError")

\* Outcomes of open(output_path, 'w') followed by json.dump.
IoOutcomes == {"ok", "open_fails", "write_fails"}

\* MarketplaceCrawler._save_extensions: the directory after the call
SaveExtensions(dir, exts, p, io) ==
    CASE io = "ok" -> [dir EXCEPT ![p] = JsonFile(exts)]
      [] io = "open_fails" -> dir
      [] io = "write_fails" -> [dir EXCEPT ![p] = Truncated]

\* crawl(max_pages) entered
Crawl(mp) ==
    /\ cpc = "idle"
    /\ max_pages' = mp
    /\ total_extensions' = 0
    /\ page' = 1
    /\ IF mp >= 1
       THEN cpc' = "request" /\ returned' = returned
       ELSE cpc' = "returned" /\ returned' = 0
    /\ UNCHANGED <<extensions, files, requests, results, save_errors>>
    /\ UNCHANGED <<flatVars, exportVars>>

\* One loop iteration up to the save: the request, the emptiness test, the count.
Request(resp) ==
    /\ cpc = "request"
    /\ LET out == MakeRequest(resp)
           n == PyLen(out.v)
       IN  /\ requests' = Append(requests, page)
           /\ results' = Append(results, out)
           /\ IF ~out.ok
              THEN cpc' = "raised"
                   /\ UNCHANGED <<total_extensions, extensions, returned>>
              ELSE IF ~Truthy(out.v)
              THEN cpc' = "returned" /\ returned' = total_extensions
                   /\ UNCHANGED <<total_extensions, extensions>>
              ELSE IF ~n.ok
              THEN cpc' = "raised"
                   /\ UNCHANGED <<total_extensions, extensions, returned>>
              ELSE cpc' = "save"
                   /\ total_extensions' = total_extensions + n.v
                   /\ extensions' = out.v
                   /\ returned' = returned
    /\ UNCHANGED <<max_pages, page, files, save_errors>>
    /\ UNCHANGED <<flatVars, exportVars>>

\* Save with the IOError of _save_extensions left uncaught: it ends crawl().
SaveUncaught(io) ==
    /\ cpc = "save"
    /\ LET stripped == StripVersions(extensions)
       IN  IF ~stripped.ok \/ io # "ok"
           THEN /\ cpc' = "raised"
                /\ files' = IF stripped.ok
                            THEN SaveExtensions(files, stripped.v, page, io)
                            ELSE files
                /\ save_errors' = IF stripped.ok THEN save_errors \cup {page}
                                  ELSE save_errors
                /\ UNCHANGED <<page, returned>>
           ELSE /\ files' = SaveExtensions(files, stripped.v, page, io)
                /\ page' = page + 1
                /\ IF page < max_pages
                   THEN cpc' = "request" /\ returned' = returned
                   ELSE cpc' = "returned" /\ returned' = total_extensions
                /\ UNCHANGED save_errors
    /\ UNCHANGED <<max_pages, total_extensions, extensions, requests, results>>
    /\ UNCHANGED <<flatVars, exportVars>>

\* The rest of the iteration: _save_extensions, then the next page or the return.
Save(io) ==
    /\ cpc = "save"
    /\ LET stripped == StripVersions(extensions)
       IN  IF ~stripped.ok
           THEN cpc' = "raised"
                /\ UNCHANGED <<page, extensions, files, save_errors, returned>>
           ELSE /\ extensions' = stripped.v
                /\ files' = SaveExtensions(files, stripped.v, page, io)
                /\ save_errors' = IF io = "ok" THEN save_errors
                                  ELSE save_errors \cup {page}
                /\ page' = page + 1
                /\ IF page < max_pages
                   THEN cpc' = "request" /\ returned' = returned
                   ELSE cpc' = "returned" /\ returned' = total_extensions
    /\ UNCHANGED <<max_pages, total_extensions, requests, results>>
    /\ UNCHANGED <<flatVars, exportVars>>

\* The directory as earlier crawls left it: snapshots of pages 1..s.
CrawlInit ==
    /\ cpc = "idle"
    /\ max_pages = 0
    /\ page = 0
    /\ total_extensions = 0
    /\ extensions = None
    /\ \E s \in 0..MaxPage :
          files = [p \in 1..MaxPage |-> IF p <= s THEN StaleFile ELSE NoFile]
    /\ requests = <<>>
    /\ results = <<>>
    /\ save_errors = {}
    /\ returned = -1
    /\ fpc = "idle" /\ extension = None /\ row = None
    /\ nested = None /\ nested_path = <<>> /\ stat = None /\ stat_name = ""
    /\ epc = "idle" /\ snapshots = <<>> /\ csv = NoFile /\ table = NoFile
    /\ failed_in = "" /\ sqlite_runs = 0

CrawlNext ==
    \/ \E mp \in 0..MaxPage : Crawl(mp)
    \/ \E resp \in Responses : Request(resp)
    \/ \E io \in IoOutcomes : Save(io)

---------------------------------------------------------------------------
\* Claims about crawl().

\* a non-empty list of records
IsRecordList(v) ==
    /\ v.t = "list"
    /\ Len(v.items) > 0
    /\ \A i \in 1..Len(v.items) : v.items[i].t = "dict"

\* a failure signal or an empty list
IsEnd(o) == o.ok /\ o.v \in {None, List(<<>>)}

RECURSIVE SumLen(_)
SumLen(rs) == IF rs = <<>> THEN 0 ELSE Len(Head(rs).v.items) + SumLen(Tail(rs))

\* crawl() has returned after pages 1..K gave non-empty lists of records and
\* page K+1 gave an empty list or a failure
K == Len(results) - 1
C1Case ==
    /\ cpc = "returned"
    /\ Len(results) >= 1
    /\ IsEnd(results[Len(results)])
    /\ \A i \in 1..K : results[i].ok /\ IsRecordList(results[i].v)

Artifacts == {p \in 1..MaxPage : files[p] # NoFile}

\* f is the snapshot of the list lst: the same records without their versions
IsSnapshotOf(f, lst) ==
    /\ f.st = "json"
    /\ f.data.t = "list"
    /\ Len(f.data.items) = Len(lst.items)
    /\ \A i \in 1..Len(lst.items) :
          /\ DOMAIN f.data.items[i].m = (DOMAIN lst.items[i].m) \ {"versions"}
          /\ \A key \in DOMAIN f.data.items[i].m :
                f.data.items[i].m[key] = lst.items[i].m[key]

\* C1 as stated: the total is the sum of the lengths of pages 1..K and exactly
\* K snapshot artifacts exist in the directory when crawl() returns (stated
\* here for a directory that holds no snapshot of an earlier run).
C1_Original ==
    C1Case /\ (\A p \in 1..MaxPage : files[p] # StaleFile) =>
        /\ returned = SumLen(SubSeq(results, 1, K))
        /\ Cardinality(Artifacts) = K

\* C1 amended: the total is the sum of the lengths of pages 1..K; the directory
\* holds the snapshot of page p exactly for the pages of 1..K whose save logged
\* no I/O error; a page whose save failed is as before the run or truncated;
\* the pages beyond K are as before the run.
C1_TotalAndSnapshots ==
    C1Case =>
        /\ returned = SumLen(SubSeq(results, 1, K))
        /\ \A p \in 1..MaxPage :
              IF p <= K /\ p \notin save_errors
              THEN IsSnapshotOf(files[p], results[p].v)
              ELSE IF p <= K
              THEN files[p] \in {NoFile, StaleFile, Truncated}
              ELSE files[p] \in {NoFile, StaleFile}

C1_Witness ==
    /\ C1Case
    /\ K = 2
    /\ save_errors = {1}
    /\ Len(results[2].v.items) = 2
    /\ files[3] = StaleFile

\* the first page whose fetch gave a failure or an empty list, else max_pages
StopPage ==
    LET stops == {i \in 1..Len(results) : results[i].ok /\ ~Truthy(results[i].v)}
    IN  IF stops = {} THEN max_pages
        ELSE CHOOSE i \in stops : \A j \in stops : i <= j

\* C2 as stated: the pages fetched are 1, 2, ..., m, each once, m the first page
\* with a failure or an empty list, else max_pages; then crawl() returns the
\* running total.
C2_Original ==
    /\ requests = [i \in 1..Len(requests) |-> i]
    /\ cpc \in {"returned", "raised"} =>
          /\ cpc = "returned"
          /\ returned = total_extensions
          /\ Len(requests) = StopPage

\* C3 as stated: whatever the response, the fetcher gives the controller a list
\* of records or a failure signal, and crawl() never raises to its caller.
C3_Original ==
    /\ cpc # "raised"
    /\ \A i \in 1..Len(results) :
          /\ results[i].ok
          /\ results[i].v # None => results[i].v.t = "list"

\* the records of every page that gave a non-empty list of records
RECURSIVE CountedSum(_)
CountedSum(rs) ==
    IF rs = <<>> THEN 0
    ELSE (IF Head(rs).ok /\ IsRecordList(Head(rs).v) THEN Len(Head(rs).v.items) ELSE 0)
         + CountedSum(Tail(rs))

\* C4 as stated: a save that fails with an I/O error leaves crawl() running
\* with page p counted, and this run produces no artifact for page p.
C4_Original ==
    [][(cpc = "save" /\ page \in save_errors') =>
          /\ cpc' = IF page < max_pages THEN "request" ELSE "returned"
          /\ page' = page + 1
          /\ total_extensions' = total_extensions
          /\ files'[page] = files[page]]_vars

\* C4 amended: a save that fails with an I/O error leaves crawl() running: the
\* next step is the fetch of page p+1 (the return at p = max_pages), the records
\* of page p stay counted in the total, which is what crawl() returns, and the
\* file of page p is left as it was or truncated, never the snapshot of page p.
C4_SaveFailureContained ==
    /\ [][(cpc = "save" /\ page \in save_errors') =>
             /\ cpc' = IF page < max_pages THEN "request" ELSE "returned"
             /\ page' = page + 1
             /\ total_extensions' = total_extensions
             /\ total_extensions >= Len(results[page].v.items)
             /\ files'[page] \in {files[page], Truncated}
             /\ \A q \in 1..MaxPage : q # page => files'[q] = files[q]]_vars
    /\ [](cpc = "returned" =>
             /\ returned = CountedSum(results)
             /\ \A p \in save_errors : IsRecordList(results[p].v))

C4_Witness ==
    /\ cpc = "returned"
    /\ save_errors = {1, 2}
    /\ files[1] = Truncated
    /\ files[2] = NoFile
    /\ Len(requests) = 3
    /\ returned = 3

CrawlSpec == CrawlInit /\ [][CrawlNext]_vars

---------------------------------------------------------------------------
\* data_processor.py: the field schema and the flattening of one record.

\* ExtensionFields.FIELD_MAPPING in insertion order: output column, path
FIELD_MAPPING ==
    << [name |-> "publisherId",          path |-> <<"publisher", "_", "publisherId">>],
       [name |-> "publisherName",        path |-> <<"publisher", "_", "publisherName">>],
       [name |-> "publisherDisplayName", path |-> <<"publisher", "_", "displayName">>],
       [name |-> "extensionId",          path |-> <<"extensionId">>],
       [name |-> "extensionName",        path |-> <<"extensionName">>],
       [name |-> "extensionDisplayName", path |-> <<"displayName">>],
       [name |-> "lastUpdated",          path |-> <<"lastUpdated">>],
       [name |-> "publishedDate",        path |-> <<"publishedDate">>],
       [name |-> "install",              path |-> <<"statistics", "_", "install">>],
       [name |-> "averagerating",        path |-> <<"statistics", "_", "averagerating">>],
       [name |-> "ratingcount",          path |-> <<"statistics", "_", "ratingcount">>],
       [name |-> "trendingdaily",        path |-> <<"statistics", "_", "trendingdaily">>],
       [name |-> "trendingmonthly",      path |-> <<"statistics", "_", "trendingmonthly">>],
       [name |-> "downloadCount",        path |-> <<"statistics", "_", "downloadCount">>],
       [name |-> "categories",           path |-> <<"categories">>],
       [name |-> "tags",                 path |-> <<"tags">>],
       [name |-> "pricing",              path |-> <<"pricing">>],
       [name |-> "hasIcon",              path |-> <<"hasIcon">>] >>

\* FIELD_MAPPING.keys() and FIELD_MAPPING.values()
FieldNames == [i \in 1..Len(FIELD_MAPPING) |-> FIELD_MAPPING[i].name]
FieldPaths == [i \in 1..Len(FIELD_MAPPING) |-> FIELD_MAPPING[i].path]

\* s.split(d) of a string given by its pieces: the segments between the
\* occurrences of d, each segment a sequence of pieces
RECURSIVE Split(_, _)
Split(s, d) ==
    IF \A i \in 1..Len(s) : s[i] # d THEN <<s>>
    ELSE LET i == CHOOSE i \in 1..Len(s) : s[i] = d /\ \A j \in 1..(i-1) : s[j] # d
         IN  <<SubSeq(s, 1, i-1)>> \o Split(SubSeq(s, i+1, Len(s)), d)

\* the dict key a segment spells: a segment of the schema is one piece
KeyOf(seg) == seg[1]

\* path.startswith('statistics_')
IsStatisticsPath(path) ==
    Len(path) >= 2 /\ path[1] = "statistics" /\ path[2] = "_"

\* the loop of _extract_nested_value over the remaining keys
RECURSIVE NestedLoop(_, _)
NestedLoop(value, keys) ==
    IF keys = <<>> THEN Ok(value)
    ELSE LET r == Get(value, KeyOf(Head(keys)), None)
         IN  IF ~r.ok THEN r
             ELSE IF r.v = None THEN Ok(None)
             ELSE NestedLoop(r.v, Tail(keys))

\* ExtensionDataProcessor._extract_nested_value
ExtractNestedValue(data, path) == NestedLoop(data, Split(path, "_"))

\* the loop of _extract_statistic_value over the entries still to scan
RECURSIVE StatisticLoop(_, _)
StatisticLoop(entries, name) ==
    IF entries = <<>> THEN Ok(None)
    ELSE LET r == Get(Head(entries), "statisticName", None)
         IN  IF ~r.ok THEN r
             ELSE IF r.v = Str(<<name>>) THEN Get(Head(entries), "value", None)
             ELSE StatisticLoop(Tail(entries), name)

\* ExtensionDataProcessor._extract_statistic_value
ExtractStatisticValue(ext, name) ==
    LET statistics == Get(ext, "statistics", List(<<>>))
    IN  IF ~statistics.ok THEN statistics
        ELSE CASE statistics.v.t = "list" -> StatisticLoop(statistics.v.items, name)
               [] statistics.v.t = "dict" ->
                     \* iterates the keys, which are strings and have no .get
                     IF DOMAIN statistics.v.m = {} THEN Ok(None)
                     ELSE Raise("AttributeError")
               [] statistics.v.t = "str" ->
                     IF statistics.v.s = <<>> THEN Ok(None) ELSE Raise("AttributeError")
               [] OTHER -> Raise("TypeError")

\* value.split('T')[0] of the date formatting
DatePart(value) ==
    IF value.t = "str" THEN Ok(Str(Split(value.s, "T")[1])) ELSE Raise("AttributeError")

\* the body of the loop of _process_extension for one field path
FieldValue(ext, path) ==
    IF IsStatisticsPath(path)
    THEN ExtractStatisticValue(ext, KeyOf(Split(path, "_")[2]))
    ELSE LET r == ExtractNestedValue(ext, path)
         IN  IF r.ok /\ path \in {<<"lastUpdated">>, <<"publishedDate">>} /\ Truthy(r.v)
             THEN DatePart(r.v)
             ELSE r

\* the loop of _process_extension over the field paths still to do: the
\* values, or the exception of the first field that raises
RECURSIVE ProcessFields(_, _, _)
ProcessFields(ext, paths, values) ==
    IF paths = <<>> THEN Ok(values)
    ELSE LET r == FieldValue(ext, Head(paths))
         IN  IF r.ok THEN ProcessFields(ext, Tail(paths), Append(values, r.v)) ELSE r

\* ExtensionDataProcessor._process_extension
ProcessExtension(ext) == ProcessFields(ext, FieldPaths, <<>>)

---------------------------------------------------------------------------
\* Records handed to the flattening.
Absent == [t |-> "absent"]      \* marks a key the record does not have

SeqsUpTo(S, n) == UNION {[1..k -> S] : k \in 0..n}

Publishers ==
    {Absent, None, Str(<<"abc">>),
     Dict([publisherId |-> Str(<<"abc">>)]),
     Dict([publisherId |-> Str(<<"abc">>), publisherName |-> Str(<<"n">>),
           displayName |-> None])}

StatEntries ==
    {Dict([statisticName |-> Str(<<"install">>), value |-> Num(42)]),
     Dict([statisticName |-> Str(<<"install">>), value |-> Num(7)]),
     Dict([statisticName |-> Str(<<"install">>)]),
     Dict([statisticName |-> Str(<<"downloadCount">>), value |-> Num(9)]),
     Dict([value |-> Num(1)]),
     Num(3)}

Statistics ==
    {Absent, None, Dict([install |-> Num(42)])}
    \cup {List(l) : l \in SeqsUpTo(StatEntries, MaxStats)}

Dates == {Absent, None, Str(<<"2021-05-01", "T", "10:00:00Z">>), Num(5)}

\* the record with the given publisher, statistics and lastUpdated
Record(pub, st, lu) ==
    LET val == [publisher |-> pub, statistics |-> st, lastUpdated |-> lu]
    IN  Dict([k \in {k \in DOMAIN val : val[k] # Absent} |-> val[k]])

ExtensionRecords ==
    {Record(pub, st, lu) : pub \in Publishers, st \in Statistics, lu \in Dates}

NestedPaths == {FieldPaths[i] : i \in {j \in 1..Len(FieldPaths) : ~IsStatisticsPath(FieldPaths[j])}}
StatNames ==
    {KeyOf(Split(FieldPaths[i], "_")[2]) : i \in {j \in 1..Len(FieldPaths) : IsStatisticsPath(FieldPaths[j])}}

CallProcessExtension ==
    /\ fpc = "ready"
    /\ fpc' = "processed"
    /\ row' = ProcessExtension(extension)
    /\ UNCHANGED <<extension, nested, nested_path, stat, stat_name>>
    /\ UNCHANGED <<crawlVars, exportVars>>

CallExtractNestedValue(path) ==
    /\ fpc = "ready"
    /\ fpc' = "nested"
    /\ nested_path' = path
    /\ nested' = ExtractNestedValue(extension, path)
    /\ UNCHANGED <<extension, row, stat, stat_name>>
    /\ UNCHANGED <<crawlVars, exportVars>>

CallExtractStatisticValue(name) ==
    /\ fpc = "ready"
    /\ fpc' = "stat"
    /\ stat_name' = name
    /\ stat' = ExtractStatisticValue(extension, name)
    /\ UNCHANGED <<extension, row, nested, nested_path>>
    /\ UNCHANGED <<crawlVars, exportVars>>

FlattenInit ==
    /\ fpc = "ready" /\ extension \in ExtensionRecords /\ row = None
    /\ nested = None /\ nested_path = <<>> /\ stat = None /\ stat_name = ""
    /\ cpc = "idle" /\ max_pages = 0 /\ page = 0 /\ total_extensions = 0
    /\ extensions = None /\ files = [p \in 1..MaxPage |-> NoFile]
    /\ requests = <<>> /\ results = <<>> /\ save_errors = {} /\ returned = -1
    /\ epc = "idle" /\ snapshots = <<>> /\ csv = NoFile /\ table = NoFile
    /\ failed_in = "" /\ sqlite_runs = 0

FlattenNext ==
    \/ CallProcessExtension
    \/ \E path \in NestedPaths : CallExtractNestedValue(path)
    \/ \E name \in StatNames : CallExtractStatisticValue(name)

---------------------------------------------------------------------------
\* Claims about the flattening.

\* C5 as stated: flattening any record never raises and yields one value per
\* schema entry, 18 for the fixed schema.
C5_Original ==
    fpc = "processed" => row.ok /\ Len(row.v) = Len(FIELD_MAPPING) /\ Len(row.v) = 18

\* the value reached by indexing v successively by the keys, None as soon as a
\* lookup is missing or the value indexed is not a mapping
RECURSIVE Reached(_, _)
Reached(v, keys) ==
    IF keys = <<>> THEN v
    ELSE IF v.t = "dict" /\ Head(keys) \in DOMAIN v.m
    THEN Reached(v.m[Head(keys)], Tail(keys))
    ELSE None

\* C9 as stated: extraction along k1_..._kn gives the value reached by indexing
\* by k1..kn, and None without raising when a lookup is missing or an
\* intermediate value is not a mapping.
C9_Original ==
    fpc = "nested" =>
        nested = Ok(Reached(extension, SelectSeq(nested_path, LAMBDA x : x # "_")))

\* the statistics sequence of a record, empty when it has none
StatisticsOf(ext) ==
    IF "statistics" \in DOMAIN ext.m /\ ext.m.statistics.t = "list"
    THEN ext.m.statistics.items ELSE <<>>

\* the value field of the first entry named s, None without one
FirstNamed(entries, s) ==
    LET hits == {i \in 1..Len(entries) :
                    /\ entries[i].t = "dict"
                    /\ "statisticName" \in DOMAIN entries[i].m
                    /\ entries[i].m.statisticName = Str(<<s>>)}
    IN  IF hits = {} THEN None
        ELSE LET i == CHOOSE i \in hits : \A j \in hits : i <= j
             IN  IF "value" \in DOMAIN entries[i].m THEN entries[i].m.value ELSE None

\* C10 as stated: for any record the column of statistic s is the value of the
\* first entry named s, and None when the record has no statistics sequence,
\* no entry named s, or a first entry named s without a value.
C10_Original ==
    fpc = "stat" => stat = Ok(FirstNamed(StatisticsOf(extension), stat_name))

FlattenSpec == FlattenInit /\ [][FlattenNext]_vars

---------------------------------------------------------------------------
\* data_processor.py: the export run.

\* Records found in the snapshots; the last one has a publisher that is no mapping.
ExportRecords ==
    << Dict([publisher |-> Dict([publisherId |-> Str(<<"abc">>)]),
             extensionName |-> Str(<<"NA">>),
             statistics |-> List(<<Dict([statisticName |-> Str(<<"install">>),
                                         value |-> Num(42)])>>),
             lastUpdated |-> Str(<<"2021-05-01", "T", "10:00:00Z">>)]),
       Dict([extensionName |-> Str(<<"ext2">>), extensionId |-> Str(<<"42">>)]),
       Dict([extensionName |-> Str(<<>>), extensionId |-> Num(42)]),
       Dict([publisher |-> Str(<<"abc">>)]) >>

\* a snapshot of n records, taken in turn from ExportRecords after the first o
SnapshotList(o, n) ==
    List([i \in 1..n |-> ExportRecords[((o + i - 1) % Len(ExportRecords)) + 1]])

SnapshotFiles ==
    {JsonFile(SnapshotList(o, n)) : o \in 0..(Len(ExportRecords) - 1), n \in 0..MaxFileRecs}
    \cup {Truncated, JsonFile(Dict(EmptyMap)), JsonFile(None)}

\* the elements of a set in some order
SetToSeq(S) == CHOOSE f \in [1..Cardinality(S) -> S] : \A x \in S : \E i \in DOMAIN f : f[i] = x

\* extensions.extend(json.load(f)) for one file: a list gives its items, a dict
\* its keys, a string its characters
ExtendWith(acc, file) ==
    IF file.st # "json" THEN Raise("JSONDecodeError")
    ELSE CASE file.data.t = "list" -> Ok(acc \o file.data.items)
           [] file.data.t = "dict" ->
                 LET keys == SetToSeq(DOMAIN file.data.m)
                 IN  Ok(acc \o [i \in 1..Len(keys) |-> Str(<<keys[i]>>)])
           [] file.data.t = "str" ->
                 Ok(acc \o [i \in 1..Len(file.data.s) |-> Str(<<file.data.s[i]>>)])
           [] OTHER -> Raise("TypeError")

\* ExtensionDataProcessor.load_extensions over the files in glob order
RECURSIVE LoadFrom(_, _)
LoadFrom(acc, dir) ==
    IF dir = <<>> THEN Ok(acc)
    ELSE LET r == ExtendWith(acc, Head(dir))
         IN  IF r.ok THEN LoadFrom(r.v, Tail(dir)) ELSE r

\* load_extensions keeping the records of the last file only
LoadLastFileOnly(dir) ==
    IF dir = <<>> THEN Ok(<<>>) ELSE LoadFrom(<<>>, <<dir[Len(dir)]>>)

LoadExtensions(dir) == LoadFrom(<<>>, dir)

\* [self._process_extension(ext) for ext in extensions]
RECURSIVE ProcessFrom(_, _)
ProcessFrom(exts, data) ==
    IF exts = <<>> THEN Ok(data)
    ELSE LET r == ProcessExtension(Head(exts))
         IN  IF r.ok THEN ProcessFrom(Tail(exts), Append(data, r.v)) ELSE r

ProcessAll(exts) == ProcessFrom(exts, <<>>)

\* the text csv.writer writes for one value: None as the empty text, a string
\* as itself, a number as its digits
CellText(v) ==
    CASE v.t = "null" -> <<>>
      [] v.t = "str" -> v.s
      [] v.t = "num" -> <<ToString(v.n)>>
      [] OTHER -> <<"repr">>

\* the with-block of convert_to_csv: the file after it
WriteCsv(old, header, data, io) ==
    CASE io = "ok" ->
            [st |-> "csv", header |-> header,
             rows |-> [i \in 1..Len(data) |->
                          [j \in 1..Len(data[i]) |-> CellText(data[i][j])]]]
      [] io = "write_fails" -> Truncated
      [] OTHER -> old

\* main() with the exception of convert_to_csv swallowed: it goes on to the load
MainAfterCsvSwallowed(ok) == "csv_done"

\* main(): where it stands after convert_to_csv returned (ok) or raised
MainAfterCsv(ok) == IF ok THEN "csv_done" ELSE "raised"

CsvOutcomes == {"ok", "read_fails", "open_fails", "write_fails"}

\* ExtensionDataProcessor.convert_to_csv, as main() calls it
ConvertToCsv(io) ==
    /\ epc = "start"
    /\ LET loaded == IF io = "read_fails" THEN Raise("IOError")
                     ELSE LoadExtensions(snapshots)
           processed == IF loaded.ok THEN ProcessAll(loaded.v) ELSE loaded
           ok == processed.ok /\ io = "ok"
       IN  /\ csv' = IF processed.ok
                     THEN WriteCsv(csv, FieldNames, processed.v, io)
                     ELSE csv
           /\ epc' = MainAfterCsv(ok)
           /\ failed_in' = IF ok THEN failed_in ELSE "csv"
    /\ UNCHANGED <<snapshots, table, sqlite_runs>>
    /\ UNCHANGED <<crawlVars, flatVars>>

\* the values read_csv takes for missing
NaTexts == {<<>>, <<"NA">>, <<"NaN">>, <<"null">>, <<"None">>}

\* pd.read_csv: the frame, its missing values read as NULL
ReadCsv(file) ==
    IF file.st # "csv" THEN Raise(IF file.st = "absent" THEN "FileNotFoundError"
                                  ELSE "EmptyDataError")
    ELSE Ok([columns |-> file.header,
             rows |-> [i \in 1..Len(file.rows) |->
                          [j \in 1..Len(file.rows[i]) |->
                              IF file.rows[i][j] \in NaTexts THEN <<"NULL">>
                              ELSE file.rows[i][j]]]])

\* df.to_sql(..., if_exists='append'): the rows are added to the table there is
ToSqlAppend(old, df) ==
    IF old.st = "table"
    THEN [st |-> "table", columns |-> old.columns, rows |-> old.rows \o df.rows]
    ELSE [st |-> "table", columns |-> df.columns, rows |-> df.rows]

\* df.to_sql(table_name, conn, if_exists='replace', index=False)
ToSql(old, df) == [st |-> "table", columns |-> df.columns, rows |-> df.rows]

\* what an earlier export run left behind: the CSV and the table of one record
OldRecord == Dict([extensionId |-> Str(<<"old">>)])
OldCsv == WriteCsv(NoFile, FieldNames, <<ProcessExtension(OldRecord).v>>, "ok")
OldTable == ToSql(NoFile, ReadCsv(OldCsv).v)

SqliteOutcomes == {"ok", "read_fails", "db_fails", "db_fails_dropped"}

\* ExtensionDataProcessor.export_to_sqlite: after convert_to_csv in main(), or
\* called again on the same CSV
ExportToSqlite(io) ==
    /\ epc \in {"csv_done", "done"}
    /\ sqlite_runs < MaxExports
    /\ sqlite_runs' = sqlite_runs + 1
    /\ LET df == IF io = "read_fails" THEN Raise("IOError") ELSE ReadCsv(csv)
       IN  IF df.ok /\ io = "ok"
           THEN /\ table' = ToSql(table, df.v)
                /\ epc' = "done"
                /\ failed_in' = failed_in
           ELSE /\ table' = IF df.ok /\ io = "db_fails_dropped" THEN NoFile ELSE table
                /\ epc' = "raised"
                /\ failed_in' = "sqlite"
    /\ UNCHANGED <<snapshots, csv>>
    /\ UNCHANGED <<crawlVars, flatVars>>

ExportInit ==
    /\ epc = "start"
    /\ snapshots \in SeqsUpTo(SnapshotFiles, MaxFiles)
    /\ \E old \in BOOLEAN :
          /\ csv = IF old THEN OldCsv ELSE NoFile
          /\ table = IF old THEN OldTable ELSE NoFile
    /\ failed_in = "" /\ sqlite_runs = 0
    /\ cpc = "idle" /\ max_pages = 0 /\ page = 0 /\ total_extensions = 0
    /\ extensions = None /\ files = [p \in 1..MaxPage |-> NoFile]
    /\ requests = <<>> /\ results = <<>> /\ save_errors = {} /\ returned = -1
    /\ fpc = "idle" /\ extension = None /\ row = None
    /\ nested = None /\ nested_path = <<>> /\ stat = None /\ stat_name = ""

ExportNext ==
    \/ \E io \in CsvOutcomes : ConvertToCsv(io)
    \/ \E io \in SqliteOutcomes : ExportToSqlite(io)

---------------------------------------------------------------------------
\* Claims about the export run.

\* C6: once convert_to_csv has failed, main() has re-raised, and no step of the
\* run executes the relational load or changes the table.
C6_NoLoadAfterCsvFailure ==
    /\ [](failed_in = "csv" => epc = "raised")
    /\ [][failed_in' = "csv" => table' = table /\ sqlite_runs' = sqlite_runs]_vars

C6_Witness ==
    /\ failed_in = "csv"
    /\ epc = "raised"
    /\ csv = OldCsv
    /\ table = OldTable
    /\ sqlite_runs = 0

RecordCount(file) ==
    IF file.st = "json" /\ file.data.t = "list" THEN Len(file.data.items) ELSE 0

RECURSIVE TotalRecords(_)
TotalRecords(dir) ==
    IF dir = <<>> THEN 0 ELSE RecordCount(Head(dir)) + TotalRecords(Tail(dir))

\* C8: after a successful convert_to_csv the CSV has the schema's column names
\* in schema order as its header and one row of as many cells per record of
\* every snapshot file.
C8_HeaderAndOneRowPerRecord ==
    epc \in {"csv_done", "done"} \/ failed_in = "sqlite" =>
        /\ csv.st = "csv"
        /\ csv.header = FieldNames
        /\ Len(csv.rows) = TotalRecords(snapshots)
        /\ \A i \in 1..Len(csv.rows) : Len(csv.rows[i]) = Len(FieldNames)

C8_Witness ==
    /\ epc = "csv_done"
    /\ Len(snapshots) = 2
    /\ RecordCount(snapshots[1]) = 3
    /\ snapshots[2] = JsonFile(List(<<>>))
    /\ Len(csv.rows) = 3

ExportSpec == ExportInit /\ [][ExportNext]_vars

====
